---- MODULE Spec2Model ----
(***************************************************************************)
(* SmartPill backend (src/main.py): the medication and doselog collections, *)
(* the dose aggregator get_todays_doses, the take / snooze upserts and the  *)
(* voice intent handler, as a state machine over a seconds-resolution UTC   *)
(* clock.                                                                   *)
(*                                                                          *)
(* A datetime is the number of seconds since Monday 00:00:00 UTC of week 0. *)
(* A Python str that the code inspects character by character (a schedule   *)
(* time entry, a voice command) is a tuple of one-character strings.        *)
(* A stored document is a function from its field names to values: a field  *)
(* that was never $set is absent from the document's DOMAIN.                *)
(***************************************************************************)
EXTENDS Integers, Sequences, FiniteSets, TLC

VARIABLES medication, doselog, now, ticks, last, inflight

vars == <<medication, doselog, now, ticks, last, inflight>>

(***************************************************************************)
(* Bounds of the model.                                                     *)
(***************************************************************************)
MaxTicks == 1
MaxResolveMeds == 2
MaxInflight == 2
MaxCalDocs == 3

(***************************************************************************)
(* datetime                                                                 *)
(***************************************************************************)
At(day, h, m, s) == day * 86400 + h * 3600 + m * 60 + s

date(dt) == dt \div 86400

\* datetime.weekday(): Monday = 0; day 0 of the model is a Monday.
weekday(dt) == date(dt) % 7

\* timedelta(minutes = n)
timedelta_minutes(n) == n * 60

\* datetime.replace(hour=, minute=, second=0, microsecond=0): raises
\* ValueError when hour is not in 0..23 or minute not in 0..59.
replace_raises(hour, minute) == ~(hour \in 0..23 /\ minute \in 0..59)

replace(dt, hour, minute) == date(dt) * 86400 + hour * 3600 + minute * 60

\* datetime.isoformat() of a UTC datetime, "YYYY-MM-DDTHH:MM:SS+00:00": the
\* fixed-width fields, most significant first.
isoformat(dt) ==
    <<date(dt), (dt % 86400) \div 3600, (dt % 3600) \div 60, dt % 60>>

\* date.isoformat(), "YYYY-MM-DD".
date_isoformat(dt) == <<date(dt)>>

fromisoformat(s) == s[1] * 86400 + s[2] * 3600 + s[3] * 60 + s[4]

\* str.startswith on two ISO strings.
startswith(s, prefix) ==
    /\ Len(prefix) <= Len(s)
    /\ \A i \in 1..Len(prefix) : s[i] = prefix[i]

\* s < t on two ISO strings of the same shape (lexicographic).
iso_less(s, t) ==
    \E i \in 1..Len(s) :
        /\ \A j \in 1..(i - 1) : s[j] = t[j]
        /\ s[i] < t[i]

(***************************************************************************)
(* str                                                                      *)
(***************************************************************************)
Digits == <<"0", "1", "2", "3", "4", "5", "6", "7", "8", "9">>

IsDigit(c) == \E d \in 1..10 : Digits[d] = c

DigitVal(c) == (CHOOSE d \in 1..10 : Digits[d] = c) - 1

\* str.split(sep) for a one-character separator.
RECURSIVE split(_, _)
split(s, sep) ==
    IF \A i \in 1..Len(s) : s[i] # sep
    THEN <<s>>
    ELSE LET i == CHOOSE k \in 1..Len(s) :
                     s[k] = sep /\ \A j \in 1..(k - 1) : s[j] # sep
         IN <<SubSeq(s, 1, i - 1)>> \o split(SubSeq(s, i + 1, Len(s)), sep)

\* str.strip() (spaces only: the alphabet of the model has no other blank).
RECURSIVE strip(_)
strip(s) ==
    IF s = <<>> THEN s
    ELSE IF Head(s) = " " THEN strip(Tail(s))
    ELSE IF s[Len(s)] = " " THEN strip(SubSeq(s, 1, Len(s) - 1))
    ELSE s

RECURSIVE DigitsValue(_)
DigitsValue(s) ==
    IF s = <<>> THEN 0
    ELSE DigitsValue(SubSeq(s, 1, Len(s) - 1)) * 10 + DigitVal(s[Len(s)])

\* int(s): surrounding blanks are ignored, an optional sign, then one or
\* more decimal digits; anything else raises ValueError.
int_body(s) ==
    IF s # <<>> /\ Head(s) \in {"+", "-"} THEN Tail(s) ELSE s

int_raises(s) ==
    LET b == int_body(strip(s))
    IN b = <<>> \/ \E i \in 1..Len(b) : ~IsDigit(b[i])

int(s) ==
    LET t == strip(s)
        v == DigitsValue(int_body(t))
    IN IF t # <<>> /\ Head(t) = "-" THEN 0 - v ELSE v

\* sub in s
Contains(s, sub) ==
    \E i \in 0..(Len(s) - Len(sub)) :
        \A j \in 1..Len(sub) : s[i + j] = sub[j]

(***************************************************************************)
(* The document store (pymongo collections reached through collection()).   *)
(* A collection is the sequence of its documents in insertion order.        *)
(***************************************************************************)
\* The result of find_one when nothing matches; falsy, like an empty dict.
None == <<>>

matches(doc, q) ==
    \A f \in DOMAIN q : f \in DOMAIN doc /\ doc[f] = q[f]

find(coll, q) == SelectSeq(coll, LAMBDA doc : matches(doc, q))

find_one(coll, q) ==
    LET r == find(coll, q) IN IF r = <<>> THEN None ELSE r[1]

\* The {"$set": fields} update of one document.
apply_set(doc, fields) == fields @@ doc

\* The document an upsert inserts when nothing matches the query.
upsert_insert(coll, q, fields) == Append(coll, apply_set(q, fields))

\* update_one(q, {"$set": fields}, upsert=True): one atomic store operation.
update_one(coll, q, fields) ==
    IF \E i \in 1..Len(coll) : matches(coll[i], q)
    THEN LET i == CHOOSE k \in 1..Len(coll) :
                      /\ matches(coll[k], q)
                      /\ \A j \in 1..(k - 1) : ~matches(coll[j], q)
         IN [coll EXCEPT ![i] = apply_set(coll[i], fields)]
    ELSE upsert_insert(coll, q, fields)

\* create_document(collection, data): inserts the document under a fresh
\* _id and returns the id as a string.
create_document(coll, data) ==
    Append(coll, [_id |-> Len(coll) + 1] @@ data)

\* str(m.get("_id"))
str(id) == ToString(id)

\* list.sort(key=...): a stable sort. A key is a tuple, compared
\* lexicographically (an ISO string, or <<n>> for a number).
RECURSIVE sort_keyed(_)
sort_keyed(s) ==
    IF s = <<>> THEN <<>>
    ELSE LET init == sort_keyed(SubSeq(s, 1, Len(s) - 1))
             x == s[Len(s)]
             \* x goes after every element whose key is not greater
             before == {i \in 1..Len(init) : iso_less(x.key, init[i].key)}
             pos == IF before = {} THEN Len(init) + 1
                    ELSE CHOOSE i \in before : \A j \in before : i <= j
         IN SubSeq(init, 1, pos - 1) \o <<x>> \o SubSeq(init, pos, Len(init))

\* due.sort(key=lambda x: x["scheduled_at"])
sort_by_scheduled_at(due) ==
    LET keyed == sort_keyed([i \in 1..Len(due) |->
                     [key |-> due[i].scheduled_at, val |-> due[i]]])
    IN [i \in 1..Len(due) |-> keyed[i].val]

(***************************************************************************)
(* get_todays_doses                                                         *)
(***************************************************************************)
\* hour, minute = map(int, t.split(":")) raises (and is caught): a part is
\* no integer, or there are not exactly two parts.
parse_raises(t) ==
    LET parts == split(t, ":")
    IN \/ \E i \in 1..Len(parts) : int_raises(parts[i])
       \/ Len(parts) # 2

parse_hour(t) == int(split(t, ":")[1])

parse_minute(t) == int(split(t, ":")[2])

\* The time entries of a schedule that get past the try/except, in order.
parsed_times(times) == SelectSeq(times, LAMBDA t : ~parse_raises(t))

\* now.astimezone(utc).replace(hour=, minute=, ...) is outside the try: an
\* entry that parses to an out-of-range hour or minute raises ValueError out
\* of get_todays_doses.
med_raises(m, t) ==
    /\ \E i \in 1..Len(m.schedule.days_of_week) :
           m.schedule.days_of_week[i] = weekday(t)
    /\ \E i \in 1..Len(m.schedule.times) :
           /\ ~parse_raises(m.schedule.times[i])
           /\ replace_raises(parse_hour(m.schedule.times[i]),
                             parse_minute(m.schedule.times[i]))

\* status = log.get("status") if log else "pending"
dose_status(log) == IF log # None THEN log.status ELSE "pending"

\* dose_entry with the scheduled instant left out of the lookup.
dose_entry_by_medication(logs, user_id, m, t, tm) ==
    LET sched_dt == replace(t, parse_hour(tm), parse_minute(tm))
        log == find_one(logs, [user_id |-> user_id,
                               medication_id |-> str(m._id)])
    IN [medication_id |-> str(m._id),
        name |-> m.name,
        dosage |-> m.dosage,
        pill_image_url |-> m.pill_image_url,
        scheduled_at |-> isoformat(sched_dt),
        status |-> dose_status(log)]

dose_entry(logs, user_id, m, t, tm) ==
    LET sched_dt == replace(t, parse_hour(tm), parse_minute(tm))
        log == find_one(logs, [user_id |-> user_id,
                               medication_id |-> str(m._id),
                               scheduled_at |-> sched_dt])
    IN [medication_id |-> str(m._id),
        name |-> m.name,
        dosage |-> m.dosage,
        pill_image_url |-> m.pill_image_url,
        scheduled_at |-> isoformat(sched_dt),
        status |-> dose_status(log)]

\* med_doses without the weekday test.
med_doses_any_day(logs, user_id, m, t) ==
    LET ts == parsed_times(m.schedule.times)
    IN [i \in 1..Len(ts) |-> dose_entry(logs, user_id, m, t, ts[i])]

\* The entries one medication contributes (the body of "for m in meds").
med_doses(logs, user_id, m, t) ==
    IF \A i \in 1..Len(m.schedule.days_of_week) :
           m.schedule.days_of_week[i] # weekday(t)
    THEN <<>>
    ELSE LET ts == parsed_times(m.schedule.times)
         IN [i \in 1..Len(ts) |-> dose_entry(logs, user_id, m, t, ts[i])]

RECURSIVE all_doses(_, _, _, _)
all_doses(logs, user_id, ms, t) ==
    IF ms = <<>> THEN <<>>
    ELSE med_doses(logs, user_id, Head(ms), t)
             \o all_doses(logs, user_id, Tail(ms), t)

\* get_todays_doses(user_id, now) over the collections meds and logs:
\* raised is whether the call ends in an uncaught exception, due the list
\* it returns otherwise.
get_todays_doses(meds, logs, user_id, t) ==
    LET ms == find(meds, [user_id |-> user_id])
        raised == \E i \in 1..Len(ms) : med_raises(ms[i], t)
        due == sort_by_scheduled_at(all_doses(logs, user_id, ms, t))
        today_str == date_isoformat(t)
    IN [raised |-> raised,
        due |-> IF raised THEN <<>>
                ELSE SelectSeq(due,
                         LAMBDA d : startswith(d.scheduled_at, today_str))]

(***************************************************************************)
(* Voice intent handler helpers                                             *)
(***************************************************************************)
Upper == <<"A", "B", "C", "D", "E", "F", "G", "H", "I", "J", "K", "L", "M",
           "N", "O", "P", "Q", "R", "S", "T", "U", "V", "W", "X", "Y", "Z">>

Lower == <<"a", "b", "c", "d", "e", "f", "g", "h", "i", "j", "k", "l", "m",
           "n", "o", "p", "q", "r", "s", "t", "u", "v", "w", "x", "y", "z">>

\* str.lower()
lower(s) ==
    [i \in 1..Len(s) |->
        IF \E k \in 1..26 : Upper[k] = s[i]
        THEN Lower[CHOOSE k \in 1..26 : Upper[k] = s[i]]
        ELSE s[i]]

abs(n) == IF n < 0 THEN 0 - n ELSE n

\* abs(int((dt - now).total_seconds() // 60)): the floor division comes
\* before the absolute value.
minutes_from_now(d, t) == abs((fromisoformat(d.scheduled_at) - t) \div 60)

\* pending without the status filter.
pending_of_all(doses) == doses

\* [d for d in doses if d["status"] in ("pending", "snoozed")]
pending_of(doses) ==
    SelectSeq(doses, LAMBDA d : d.status \in {"pending", "snoozed"})

\* The query intent's choice: pending.sort(key=minutes_from_now); pending[0]
query_top(pending, t) ==
    sort_keyed([i \in 1..Len(pending) |->
        [key |-> <<minutes_from_now(pending[i], t)>>, val |-> pending[i]]])[1].val

\* The reminder intent's choice: pending[0]
remind_top(pending, t) == pending[1]

W_what == <<"w", "h", "a", "t">>
W_medicine == <<"m", "e", "d", "i", "c", "i", "n", "e">>
W_medication == <<"m", "e", "d", "i", "c", "a", "t", "i", "o", "n">>
W_take_now == <<"t", "a", "k", "e", " ", "n", "o", "w">>
W_remind == <<"r", "e", "m", "i", "n", "d">>
W_minute == <<"m", "i", "n", "u", "t", "e">>

is_query(text_lower) ==
    /\ Contains(text_lower, W_what)
    /\ \/ Contains(text_lower, W_medicine)
       \/ Contains(text_lower, W_medication)
       \/ Contains(text_lower, W_take_now)

is_remind(text_lower) ==
    /\ startswith(text_lower, W_remind)
    /\ Contains(text_lower, W_minute)

\* for m in [5,10,15,20,30,45,60]: if f"{m}" in text_lower: minutes = m; break
Ladder == <<5, 10, 15, 20, 30, 45, 60>>

\* f"{m}" for the values of the ladder
format_int(m) ==
    IF m < 10 THEN <<Digits[m + 1]>>
    ELSE <<Digits[(m \div 10) + 1], Digits[(m % 10) + 1]>>

\* The ladder walked without the break: the last value found wins.
extract_minutes_no_break(text_lower) ==
    LET hits == {i \in 1..Len(Ladder) : Contains(text_lower, format_int(Ladder[i]))}
    IN IF hits = {} THEN 15
       ELSE Ladder[CHOOSE i \in hits : \A j \in hits : i >= j]

extract_minutes(text_lower) ==
    LET hits == {i \in 1..Len(Ladder) : Contains(text_lower, format_int(Ladder[i]))}
    IN IF hits = {} THEN 15
       ELSE Ladder[CHOOSE i \in hits : \A j \in hits : i <= j]

R_nothing_due == "You have no medication due right now."
R_fallback == "Sorry, I didn't understand."
R_take(top) == <<"It's medication time. Please take ", top.dosage, " of ", top.name>>
R_remind(minutes) == <<"Okay, I'll remind you in ", minutes, " minutes.">>
R_remind_nothing(minutes) ==
    <<"Okay, I'll remind you in ", minutes, " minutes, but there is nothing due right now.">>
\* An uncaught exception: the request ends in a server error.
R_error == "Internal Server Error"

(***************************************************************************)
(* caregiver_compliance: the 30-day calendar.  scheduled_at is a datetime   *)
(* in every document the handlers write (TakeActionIn, SnoozeIn and the     *)
(* reminder intent all pass a datetime), so lg.get("scheduled_at") always   *)
(* takes the isinstance(day, datetime) branch.                              *)
(***************************************************************************)
\* timedelta(days = n)
timedelta_days(n) == n * 86400

\* The values of DoseLog.status.
Statuses == {"pending", "taken", "missed", "snoozed"}

\* status = lg.get("status", "pending")
log_status(lg) == IF "status" \in DOMAIN lg THEN lg.status ELSE "pending"

\* day_status[day], or the default {"taken":0,"missed":0,"pending":0} when no
\* log falls on the day: the number of logs of each status on that date.
day_status(logs, day) ==
    [st \in Statuses |->
        Cardinality({i \in 1..Len(logs) :
            /\ date(logs[i].scheduled_at) = day
            /\ log_status(logs[i]) = st})]

\* symbol with the default branch answering "taken".
day_symbol_default_taken(st) ==
    IF st["missed"] > 0 THEN "missed"
    ELSE IF st["taken"] > 0 /\ st["pending"] = 0 THEN "taken"
    ELSE IF st["pending"] = 0 THEN "taken"
    ELSE "pending"

\* symbol with a snoozed log counted as a missed one.
day_symbol_snoozed_missed(st) ==
    IF st["missed"] > 0 \/ st["snoozed"] > 0 THEN "missed"
    ELSE IF st["taken"] > 0 /\ st["pending"] = 0 THEN "taken"
    ELSE "pending"

\* symbol with taken tested before missed.
day_symbol_taken_first(st) ==
    IF st["taken"] > 0 /\ st["pending"] = 0 THEN "taken"
    ELSE IF st["missed"] > 0 THEN "missed"
    ELSE "pending"

\* symbol = "pending"; if st.get("missed",0) > 0: "missed";
\* elif st.get("taken",0) > 0 and st.get("pending",0) == 0: "taken"
day_symbol(st) ==
    IF st["missed"] > 0 THEN "missed"
    ELSE IF st["taken"] > 0 /\ st["pending"] = 0 THEN "taken"
    ELSE "pending"

\* The window with start = now.date() - 29 days.
calendar_days_29(t) ==
    LET start == date(t - timedelta_days(29))
    IN [i \in 1..(date(t) - start + 1) |-> start + i - 1]

\* d = start; while d <= now.date(): ...; d += timedelta(days=1)
calendar_days(t) ==
    LET start == date(t - timedelta_days(30))
    IN [i \in 1..(date(t) - start + 1) |-> start + i - 1]

\* The calendar caregiver_compliance returns for user_id at instant t;
\* date.isoformat() is the tuple of the date alone.
compliance_calendar(logs_all, user_id, t) ==
    LET logs == find(logs_all, [user_id |-> user_id])
        days == calendar_days(t)
    IN [i \in 1..Len(days) |->
           [date |-> <<days[i]>>,
            status |-> day_symbol(day_status(logs, days[i]))]]

(***************************************************************************)
(* State                                                                    *)
(*   medication, doselog  the two collections                               *)
(*   now                  the UTC clock (datetime.now(timezone.utc))        *)
(*   ticks                how often the clock has moved                     *)
(*   last                 history: the last request handled and its answer  *)
(*   inflight             requests between two of their store operations   *)
(***************************************************************************)
Tick ==
    /\ \E d \in {50} : now' = now + d
    /\ ticks' = ticks + 1
    /\ UNCHANGED <<medication, doselog, last, inflight>>

\* The query of a take / snooze payload.
key_of(payload) ==
    [user_id |-> payload.user_id,
     medication_id |-> payload.medication_id,
     scheduled_at |-> payload.scheduled_at]

\* History only (the handlers do not read it): the statuses the aggregator
\* reports for key q right now.
reported(q) ==
    LET r == get_todays_doses(medication, doselog, q.user_id, now)
    IN {r.due[i].status : i \in {j \in 1..Len(r.due) :
            /\ r.due[j].medication_id = q.medication_id
            /\ fromisoformat(r.due[j].scheduled_at) = q.scheduled_at}}

\* POST /api/medications
add_medication(payload) ==
    /\ medication' = create_document(medication, payload)
    /\ last' = [op |-> "add", user_id |-> payload.user_id]
    /\ UNCHANGED <<doselog, now, ticks, inflight>>

\* today_meds that stores a pending DoseEvent for the first entry of the
\* list when the entry has none.
today_meds_materialise(user_id) ==
    LET r == get_todays_doses(medication, doselog, user_id, now)
        q == [user_id |-> user_id,
              medication_id |-> r.due[1].medication_id,
              scheduled_at |-> fromisoformat(r.due[1].scheduled_at)]
    IN /\ last' = [op |-> "today", user_id |-> user_id, at |-> now,
                   result |-> r]
       /\ doselog' = IF r.due # <<>> /\ find_one(doselog, q) = None
                      THEN upsert_insert(doselog, q,
                               [status |-> "pending", updated_at |-> now])
                      ELSE doselog
       /\ UNCHANGED <<medication, now, ticks, inflight>>

\* GET /api/today/{user_id}
today_meds(user_id) ==
    /\ last' = [op |-> "today", user_id |-> user_id, at |-> now,
                result |-> get_todays_doses(medication, doselog, user_id, now)]
    /\ UNCHANGED <<medication, doselog, now, ticks, inflight>>

\* The fields mark_taken sets.
taken_fields(t) == [status |-> "taken", taken_at |-> t, updated_at |-> t]

\* The fields snooze and the reminder intent set.
snoozed_fields(until, t) ==
    [status |-> "snoozed", snooze_until |-> until, updated_at |-> t]

\* mark_taken whose update also reaches the DoseEvents of other users with
\* the same medication id and scheduled instant.
mark_taken_all_users(payload) ==
    LET own == update_one(doselog, key_of(payload), taken_fields(now))
    IN /\ doselog' = [i \in 1..Len(own) |->
                         IF /\ own[i].medication_id = payload.medication_id
                            /\ own[i].scheduled_at = payload.scheduled_at
                         THEN apply_set(own[i], taken_fields(now))
                         ELSE own[i]]
       /\ last' = [op |-> "take", q |-> key_of(payload), at |-> now,
                   before |-> find_one(doselog, key_of(payload)),
                   reported |-> reported(key_of(payload))]
       /\ UNCHANGED <<medication, now, ticks, inflight>>

\* mark_taken with an insert in place of the upsert.
mark_taken_insert(payload) ==
    /\ doselog' = upsert_insert(doselog, key_of(payload), taken_fields(now))
    /\ last' = [op |-> "take", q |-> key_of(payload), at |-> now,
                before |-> find_one(doselog, key_of(payload)),
                reported |-> reported(key_of(payload))]
    /\ UNCHANGED <<medication, now, ticks, inflight>>

\* POST /api/take
mark_taken(payload) ==
    /\ doselog' = update_one(doselog, key_of(payload), taken_fields(now))
    /\ last' = [op |-> "take", q |-> key_of(payload), at |-> now,
                before |-> find_one(doselog, key_of(payload)),
                reported |-> reported(key_of(payload))]
    /\ UNCHANGED <<medication, now, ticks, inflight>>

\* snooze with upsert=False: only an existing document is updated.
snooze_no_upsert(payload, minutes) ==
    LET until == now + timedelta_minutes(minutes)
    IN /\ doselog' = IF find_one(doselog, key_of(payload)) = None THEN doselog
                      ELSE update_one(doselog, key_of(payload),
                                      snoozed_fields(until, now))
       /\ last' = [op |-> "snooze", q |-> key_of(payload), at |-> now,
                   minutes |-> minutes, result |-> isoformat(until),
                   before |-> find_one(doselog, key_of(payload)),
                   reported |-> reported(key_of(payload))]
       /\ UNCHANGED <<medication, now, ticks, inflight>>

\* POST /api/snooze
snooze(payload, minutes) ==
    LET until == now + timedelta_minutes(minutes)
    IN /\ doselog' = update_one(doselog, key_of(payload),
                                snoozed_fields(until, now))
       /\ last' = [op |-> "snooze", q |-> key_of(payload), at |-> now,
                   minutes |-> minutes, result |-> isoformat(until),
                   before |-> find_one(doselog, key_of(payload)),
                   reported |-> reported(key_of(payload))]
       /\ UNCHANGED <<medication, now, ticks, inflight>>

\* The query of the reminder intent's upsert.
voice_key(user_id, top) ==
    [user_id |-> user_id,
     medication_id |-> top.medication_id,
     scheduled_at |-> fromisoformat(top.scheduled_at)]

\* POST /api/voice, the query intent
voice_query(user_id) ==
    LET doses == get_todays_doses(medication, doselog, user_id, now)
        pending == pending_of(doses.due)
    IN /\ last' = [op |-> "voice_query", user_id |-> user_id, at |-> now,
                   response |->
                       IF doses.raised THEN R_error
                       ELSE IF pending = <<>> THEN R_nothing_due
                       ELSE R_take(query_top(pending, now))]
       /\ UNCHANGED <<medication, doselog, now, ticks, inflight>>

\* POST /api/voice, the reminder intent
voice_remind(user_id, text_lower) ==
    LET minutes == extract_minutes(text_lower)
        doses == get_todays_doses(medication, doselog, user_id, now)
        pending == pending_of(doses.due)
        top == remind_top(pending, now)
        until == now + timedelta_minutes(minutes)
    IN IF doses.raised \/ pending = <<>>
       THEN /\ last' = [op |-> "voice_remind", user_id |-> user_id, at |-> now,
                        text |-> text_lower,
                        minutes |-> minutes, wrote |-> FALSE,
                        response |-> IF doses.raised THEN R_error
                                     ELSE R_remind_nothing(minutes)]
            /\ UNCHANGED <<medication, doselog, now, ticks, inflight>>
       ELSE /\ doselog' = update_one(doselog, voice_key(user_id, top),
                                     snoozed_fields(until, now))
            /\ last' = [op |-> "voice_remind", user_id |-> user_id, at |-> now,
                        text |-> text_lower,
                        minutes |-> minutes, wrote |-> TRUE,
                        q |-> voice_key(user_id, top),
                        before |-> find_one(doselog, voice_key(user_id, top)),
                        response |-> R_remind(minutes)]
            /\ UNCHANGED <<medication, now, ticks, inflight>>

\* POST /api/voice
voice_command(cmd) ==
    LET text_lower == strip(lower(cmd.text))
    IN IF is_query(text_lower) THEN voice_query(cmd.user_id)
       ELSE IF is_remind(text_lower) THEN voice_remind(cmd.user_id, text_lower)
       ELSE /\ last' = [op |-> "voice_other", user_id |-> cmd.user_id,
                        at |-> now, response |-> R_fallback]
            /\ UNCHANGED <<medication, doselog, now, ticks, inflight>>

\* GET /api/caregiver/compliance/{user_id}
caregiver_compliance(user_id) ==
    /\ last' = [op |-> "compliance", user_id |-> user_id, at |-> now,
                calendar |-> compliance_calendar(doselog, user_id, now)]
    /\ UNCHANGED <<medication, doselog, now, ticks, inflight>>

(***************************************************************************)
(* Inputs: users, request payloads, clock readings.                         *)
(***************************************************************************)
Users == {"u1", "u2"}

T_0800 == <<"0", "8", ":", "0", "0">>
T_2000 == <<"2", "0", ":", "0", "0">>
T_0900 == <<"0", "9", ":", "0", "0">>
T_0901 == <<"0", "9", ":", "0", "1">>
T_0955 == <<"0", "9", ":", "5", "5">>
T_abc == <<"a", "b", "c">>
T_9 == <<"9">>
T_2599 == <<"2", "5", ":", "9", "9">>

MonWedFri == <<0, 2, 4>>
EveryDay == <<0, 1, 2, 3, 4, 5, 6>>

MedicationIn(user_id, name, days, times) ==
    [user_id |-> user_id, name |-> name, dosage |-> "1 pill",
     pill_image_url |-> "null",
     schedule |-> [days_of_week |-> days, times |-> times]]

Med_A == MedicationIn("u1", "A", MonWedFri, <<T_0800, T_2000>>)
Med_B == MedicationIn("u1", "B", EveryDay, <<T_0955, T_abc, T_9, T_0900>>)
Med_C == MedicationIn("u1", "C", EveryDay, <<T_0901>>)
Med_E == MedicationIn("u2", "E", EveryDay, <<T_2599, T_0900>>)

TakeActionIn(user_id, medication_id, scheduled_at) ==
    [user_id |-> user_id, medication_id |-> medication_id,
     scheduled_at |-> scheduled_at]

Txt_query ==
    <<"W", "h", "a", "t", " ", "m", "e", "d", "i", "c", "i", "n", "e", " ",
      "d", "o", " ", "I", " ", "t", "a", "k", "e", " ", "n", "o", "w", "?">>
Txt_remind30 ==
    <<"R", "e", "m", "i", "n", "d", " ", "m", "e", " ", "i", "n", " ",
      "3", "0", " ", "m", "i", "n", "u", "t", "e", "s">>
Txt_hello == <<" ", "H", "e", "l", "l", "o", " ">>
Txt_remind15 ==
    <<"R", "e", "m", "i", "n", "d", " ", "m", "e", " ", "i", "n", " ", "1",
      "5", " ", "m", "i", "n", "u", "t", "e", "s">>
Txt_remind45 ==
    <<"R", "e", "m", "i", "n", "d", " ", "m", "e", " ", "i", "n", " ", "4",
      "5", " ", "m", "i", "n", "u", "t", "e", "s">>
Txt_remind10 ==
    <<"R", "E", "M", "I", "N", "D", " ", "M", "E", " ", "I", "N", " ", "1",
      "0", " ", "M", "I", "N", "U", "T", "E", "S">>
Txt_remind_few ==
    <<"r", "e", "m", "i", "n", "d", " ", "m", "e", " ", "i", "n", " ", "a",
      " ", "f", "e", "w", " ", "m", "i", "n", "u", "t", "e", "s">>
Txt_remind60_20 ==
    <<"r", "e", "m", "i", "n", "d", " ", "m", "e", " ", "i", "n", " ", "6",
      "0", " ", "o", "r", " ", "2", "0", " ", "m", "i", "n", "u", "t", "e",
      "s">>

VoiceCommandIn(text, user_id) == [text |-> text, user_id |-> user_id]

(***************************************************************************)
(* Spec: the handlers, each run to completion, once user u1 has          *)
(* registered one medication with two doses a day (09:55, 09:00, and two   *)
(* entries that do not parse), from Monday 09:50:00 on.                    *)
(***************************************************************************)
Init ==
    /\ medication = create_document(<<>>, Med_B)
    /\ doselog = <<>>
    /\ now = At(0, 9, 50, 0)
    /\ ticks = 0
    /\ last = [op |-> "init"]
    /\ inflight = {}

TakePayloads ==
    {TakeActionIn("u1", str(1), At(0, 9, 0, 0)),
     TakeActionIn("u1", str(1), At(0, 9, 55, 0))}

VoiceCommands ==
    {VoiceCommandIn(Txt_query, "u1"), VoiceCommandIn(Txt_remind30, "u1"),
     VoiceCommandIn(Txt_hello, "u1")}

Next ==
    \/ ticks < MaxTicks /\ Tick
    \/ \E user_id \in Users : today_meds(user_id)
    \/ \E payload \in TakePayloads : mark_taken(payload)
    \/ \E payload \in TakePayloads : snooze(payload, 15)
    \/ \E cmd \in VoiceCommands : voice_command(cmd)
    \/ \E user_id \in Users : caregiver_compliance(user_id)

Spec == Init /\ [][Next]_vars

(***************************************************************************)
(* SpecResolve: the aggregator over up to MaxResolveMeds medications of    *)
(* different schedules, read at several instants.                          *)
(***************************************************************************)
\* Monday 08:55:00, 09:00:10 and 09:01:00, Tuesday 08:55:00.
ResolveInstants ==
    {At(0, 8, 55, 0), At(0, 9, 0, 10), At(0, 9, 1, 0), At(1, 8, 55, 0)}

InitResolve ==
    /\ medication = <<>>
    /\ doselog = <<>>
    /\ now \in ResolveInstants
    /\ ticks = 0
    /\ last = [op |-> "init"]
    /\ inflight = {}

ResolveMeds == {Med_A, Med_B, Med_C, Med_E}

ResolveTakes ==
    {TakeActionIn("u1", str(1), At(0, 9, 0, 0)),
     TakeActionIn("u1", str(1), At(0, 9, 55, 0))}

ResolveVoice == {VoiceCommandIn(Txt_query, "u1")}

NextResolve ==
    \/ \E payload \in ResolveMeds :
           Len(medication) < MaxResolveMeds /\ add_medication(payload)
    \/ \E user_id \in Users : today_meds(user_id)
    \/ \E payload \in ResolveTakes : mark_taken(payload)
    \/ \E payload \in ResolveTakes : snooze(payload, 15)
    \/ \E cmd \in ResolveVoice : voice_command(cmd)

SpecResolve == InitResolve /\ [][NextResolve]_vars

(***************************************************************************)
(* SpecCal: the compliance calendar read over stores of up to MaxCalDocs   *)
(* DoseEvents of any status, at three instants; user u1 has a medication   *)
(* scheduled every day.                                                    *)
(***************************************************************************)
\* Day 35 at 00:00:00 and 23:59:59, day 36 at 09:50:00.
CalInstants == {At(35, 0, 0, 0), At(35, 23, 59, 59), At(36, 9, 50, 0)}

\* The keys a stored DoseEvent may have: three instants of day 35, the
\* first second of day 5 (30 days before day 35) and of day 36, for u1; one
\* instant of day 35 for u2.
CalKeys ==
    <<TakeActionIn("u1", str(1), At(35, 9, 0, 0)),
      TakeActionIn("u1", str(1), At(35, 9, 55, 0)),
      TakeActionIn("u1", str(1), At(35, 23, 59, 59)),
      TakeActionIn("u1", str(1), At(5, 0, 0, 0)),
      TakeActionIn("u1", str(1), At(36, 0, 0, 0)),
      TakeActionIn("u2", str(1), At(35, 9, 0, 0))>>

\* A stored DoseLog document.
DoseLog(key, status) ==
    [user_id |-> key.user_id, medication_id |-> key.medication_id,
     scheduled_at |-> key.scheduled_at, status |-> status,
     updated_at |-> key.scheduled_at]

\* The statuses tried under key i.
CalStatuses(i) == IF i <= 3 THEN Statuses ELSE {"missed", "taken"}

\* The store that holds, in the order of CalKeys, a document of status c[i]
\* for every key i with c[i] # "none".
RECURSIVE CalStore(_, _)
CalStore(c, i) ==
    IF i > Len(CalKeys) THEN <<>>
    ELSE (IF c[i] = "none" THEN <<>> ELSE <<DoseLog(CalKeys[i], c[i])>>)
             \o CalStore(c, i + 1)

CalStores ==
    {CalStore(c, 1) :
        c \in {f \in [1..Len(CalKeys) -> Statuses \cup {"none"}] :
                  /\ \A i \in 1..Len(CalKeys) :
                         f[i] \in CalStatuses(i) \cup {"none"}
                  /\ Cardinality({i \in 1..Len(CalKeys) : f[i] # "none"})
                         <= MaxCalDocs}}

InitCal ==
    /\ medication = create_document(<<>>, Med_B)
    /\ doselog \in CalStores
    /\ now \in CalInstants
    /\ ticks = 0
    /\ last = [op |-> "init"]
    /\ inflight = {}

NextCal == \E user_id \in Users : caregiver_compliance(user_id)

SpecCal == InitCal /\ [][NextCal]_vars

(***************************************************************************)
(* Properties of the compliance calendar (SpecCal)                          *)
(***************************************************************************)
\* The stored DoseEvents of user_id scheduled on calendar date day.
EventsOn(user_id, day) ==
    {j \in 1..Len(doselog) :
        /\ doselog[j].user_id = user_id
        /\ doselog[j].scheduled_at >= day * 86400
        /\ doselog[j].scheduled_at < (day + 1) * 86400}

\* The dates of the window that ends at instant t.
Window(t) == ((t \div 86400) - 30)..(t \div 86400)

\* The statuses a calendar gives for date day.
StatusesFor(calendar, day) ==
    {calendar[i].status : i \in {k \in 1..Len(calendar) :
                                     calendar[k].date = <<day>>}}

\* C12: a date of the window on which the user has a stored DoseEvent of
\* status missed is classified missed, whatever other events share the date.
C12_MissedDominates ==
    last.op = "compliance" =>
        \A day \in Window(last.at) :
            (\E j \in EventsOn(last.user_id, day) : doselog[j].status = "missed")
                => StatusesFor(last.calendar, day) = {"missed"}

\* A calendar of u1 whose day 35 holds a missed, a taken and a snoozed event.
C12_Witness ==
    /\ last.op = "compliance"
    /\ last.user_id = "u1"
    /\ \E i, j, k \in EventsOn("u1", 35) :
           /\ doselog[i].status = "missed"
           /\ doselog[j].status = "taken"
           /\ doselog[k].status = "snoozed"
    /\ StatusesFor(last.calendar, 35) = {"missed"}

\* C13: a date of the window on which the user has no stored DoseEvent is
\* classified pending, also when the user's schedule has doses that day.
C13_NoEventsPending ==
    last.op = "compliance" =>
        \A day \in Window(last.at) :
            EventsOn(last.user_id, day) = {}
                => StatusesFor(last.calendar, day) = {"pending"}

\* A calendar of u1, who has a medication due every day: day 35 has a taken
\* event and is classified taken, day 34 has none and is classified pending.
C13_Witness ==
    /\ last.op = "compliance"
    /\ last.user_id = "u1"
    /\ \E i \in 1..Len(medication) :
           /\ medication[i].user_id = "u1"
           /\ medication[i].schedule.days_of_week = EveryDay
    /\ EventsOn("u1", 34) = {}
    /\ StatusesFor(last.calendar, 34) = {"pending"}
    /\ EventsOn("u1", 35) # {}
    /\ StatusesFor(last.calendar, 35) = {"taken"}

\* C14: the calendar has 31 entries, the i-th dated 30 days before now's
\* date plus i - 1, each of status taken, missed or pending.
C14_CalendarShape ==
    last.op = "compliance" =>
        /\ Len(last.calendar) = 31
        /\ \A i \in 1..Len(last.calendar) :
               /\ last.calendar[i].date = <<(last.at \div 86400) - 31 + i>>
               /\ last.calendar[i].status \in {"taken", "missed", "pending"}

\* A calendar read at midnight of day 35 over a store with an event on the
\* first date of the window (day 5) and one after its last date (day 36).
C14_Witness ==
    /\ last.op = "compliance"
    /\ last.user_id = "u1"
    /\ last.at = At(35, 0, 0, 0)
    /\ EventsOn("u1", 5) # {}
    /\ EventsOn("u1", 36) # {}
    /\ last.calendar[1].date = <<5>>
    /\ last.calendar[1].status # "pending"
    /\ last.calendar[31].date = <<35>>

(***************************************************************************)
(* Properties of the aggregator (SpecResolve)                               *)
(***************************************************************************)
MedsOf(user_id) ==
    {i \in 1..Len(medication) : medication[i].user_id = user_id}

ScheduledOn(m, t) ==
    \E i \in 1..Len(m.schedule.days_of_week) :
        m.schedule.days_of_week[i] = weekday(t)

EntriesOf(result, m) ==
    {i \in 1..Len(result.due) : result.due[i].medication_id = str(m._id)}

\* C1: a today list holds no entry of a medication of the user whose
\* days_of_week does not contain the weekday of the reference instant; when
\* that is so for all the user's medications the list is empty.
C1_WeekdayNotScheduled ==
    last.op = "today" =>
        /\ \A i \in MedsOf(last.user_id) :
               ~ScheduledOn(medication[i], last.at)
                   => EntriesOf(last.result, medication[i]) = {}
        /\ (\A i \in MedsOf(last.user_id) :
                ~ScheduledOn(medication[i], last.at))
               => last.result.due = <<>>

\* A Tuesday list of a user who has a Mon/Wed/Fri medication and another one
\* that is due: the list is not empty and holds nothing of the former.
C1_Witness ==
    /\ last.op = "today"
    /\ weekday(last.at) = 1
    /\ ~last.result.raised
    /\ last.result.due # <<>>
    /\ \E i \in MedsOf(last.user_id) :
           /\ medication[i].schedule.days_of_week = MonWedFri
           /\ medication[i].schedule.times = <<T_0800, T_2000>>

\* A time entry of two integers in range.
WellFormedTime(t) ==
    /\ ~parse_raises(t)
    /\ parse_hour(t) \in 0..23
    /\ parse_minute(t) \in 0..59

\* C2: get_todays_doses never raises on malformed time entries and emits one
\* entry for each well-formed time of every medication scheduled that day.
C2_MalformedSkipped ==
    last.op = "today" =>
        /\ ~last.result.raised
        /\ \A i \in MedsOf(last.user_id) :
               ScheduledOn(medication[i], last.at) =>
                   Cardinality(EntriesOf(last.result, medication[i]))
                       = Cardinality({k \in 1..Len(medication[i].schedule.times) :
                             WellFormedTime(medication[i].schedule.times[k])})

\* The stored DoseEvents whose key is that of entry d of user_id's list.
EventsOf(user_id, d) ==
    {j \in 1..Len(doselog) :
        /\ doselog[j].user_id = user_id
        /\ doselog[j].medication_id = d.medication_id
        /\ doselog[j].scheduled_at = fromisoformat(d.scheduled_at)}

\* C3: every emitted entry carries the stored status of the DoseEvent with
\* exactly its key, and "pending" when there is none; a single medication
\* with one time a day and an empty store gives one pending entry.
C3_StatusFromStore ==
    last.op = "today" =>
        /\ \A i \in 1..Len(last.result.due) :
               LET d == last.result.due[i]
                   ev == EventsOf(last.user_id, d)
               IN IF ev = {} THEN d.status = "pending"
                  ELSE \E j \in ev : d.status = doselog[j].status
        /\ (/\ doselog = <<>>
            /\ Cardinality(MedsOf(last.user_id)) = 1
            /\ \A i \in MedsOf(last.user_id) :
                   /\ medication[i].schedule.days_of_week = EveryDay
                   /\ Len(medication[i].schedule.times) = 1
                   /\ WellFormedTime(medication[i].schedule.times[1]))
               => /\ Len(last.result.due) = 1
                  /\ last.result.due[1].status = "pending"

\* A list, read at the very instant of a dose, with a taken, a snoozed and a
\* pending entry.
C3_Witness ==
    /\ last.op = "today"
    /\ last.at = At(0, 9, 1, 0)
    /\ \E i, j, k \in 1..Len(last.result.due) :
           /\ last.result.due[i].status = "taken"
           /\ last.result.due[j].status = "snoozed"
           /\ last.result.due[k].status = "pending"
           /\ last.result.due[k].scheduled_at = isoformat(last.at)

\* The first entry of a list at the least distance |scheduled - t|.
Nearest(pending, t) ==
    LET dist(i) == abs(fromisoformat(pending[i].scheduled_at) - t)
    IN pending[CHOOSE i \in 1..Len(pending) :
                   \A j \in 1..Len(pending) :
                       dist(i) < dist(j) \/ (dist(i) = dist(j) /\ i <= j)]

PendingOrSnoozed(user_id, t) ==
    LET doses == get_todays_doses(medication, doselog, user_id, t)
    IN SelectSeq(doses.due, LAMBDA d : d.status = "pending" \/ d.status = "snoozed")

\* C9: the query intent names the pending or snoozed entry of today at the
\* least absolute time distance from now, the first one on a tie.
C9_QueryNamesNearest ==
    (/\ last.op = "voice_query"
     /\ last.response # R_error
     /\ PendingOrSnoozed(last.user_id, last.at) # <<>>)
        => last.response
               = R_take(Nearest(PendingOrSnoozed(last.user_id, last.at), last.at))

(***************************************************************************)
(* Properties of the take / snooze / reminder upserts (Spec)                *)
(***************************************************************************)
\* The stored DoseEvents with key q.
Events(q) ==
    {j \in 1..Len(doselog) :
        /\ doselog[j].user_id = q.user_id
        /\ doselog[j].medication_id = q.medication_id
        /\ doselog[j].scheduled_at = q.scheduled_at}

\* C4: a dose the aggregator reports as pending, with no DoseEvent, is
\* snoozed for 15 minutes under its key; the next today list of that user on
\* the same UTC day reports it snoozed, and the stored snooze_until is the
\* time of the snooze call plus 15 minutes.
C4_SnoozeRoundTrip ==
    [][(/\ last.op = "snooze"
        /\ last.minutes = 15
        /\ last.before = None
        /\ last.reported = {"pending"}
        /\ last'.op = "today"
        /\ last'.user_id = last.q.user_id
        /\ date(last'.at) = date(last.at))
       => /\ ~last'.result.raised
          /\ \E i \in 1..Len(last'.result.due) :
                 /\ last'.result.due[i].medication_id = last.q.medication_id
                 /\ fromisoformat(last'.result.due[i].scheduled_at)
                        = last.q.scheduled_at
          /\ \A i \in 1..Len(last'.result.due) :
                 (/\ last'.result.due[i].medication_id = last.q.medication_id
                  /\ fromisoformat(last'.result.due[i].scheduled_at)
                         = last.q.scheduled_at)
                     => last'.result.due[i].status = "snoozed"
          /\ Events(last.q) # {}
          /\ \A j \in Events(last.q) :
                 doselog[j].snooze_until = last.at + 15 * 60]_vars

\* A today list read some time after a dose was snoozed for 15 minutes and
\* never taken: the entry is reported snoozed.
C4_Witness ==
    /\ last.op = "today"
    /\ \E i \in 1..Len(last.result.due) :
           /\ last.result.due[i].status = "snoozed"
           /\ \E j \in EventsOf(last.user_id, last.result.due[i]) :
                  /\ "taken_at" \notin DOMAIN doselog[j]
                  /\ doselog[j].snooze_until = doselog[j].updated_at + 15 * 60
                  /\ doselog[j].updated_at < last.at

\* C5, as stated: a second mark_taken on a key leaves the DoseEvent as the
\* first call left it, aside from updated_at.
C5_SameButUpdatedAt ==
    (/\ last.op = "take"
     /\ last.before # None
     /\ last.before.status = "taken")
        => /\ Cardinality(Events(last.q)) = 1
           /\ \A j \in Events(last.q) :
                  /\ DOMAIN doselog[j] = DOMAIN last.before
                  /\ \A f \in DOMAIN doselog[j] \ {"updated_at"} :
                         doselog[j][f] = last.before[f]

\* C5, amended: a second mark_taken on a key leaves a single DoseEvent with
\* the same fields, status taken, and all values as the first call left them
\* aside from taken_at and updated_at, which both become the time of the
\* second call.
C5_SameButTimestamps ==
    (/\ last.op = "take"
     /\ last.before # None
     /\ last.before.status = "taken")
        => /\ Cardinality(Events(last.q)) = 1
           /\ \A j \in Events(last.q) :
                  /\ DOMAIN doselog[j] = DOMAIN last.before
                  /\ \A f \in DOMAIN doselog[j] \ {"taken_at", "updated_at"} :
                         doselog[j][f] = last.before[f]
                  /\ doselog[j].status = "taken"
                  /\ doselog[j].taken_at = last.at
                  /\ doselog[j].updated_at = last.at

\* A second mark_taken, later than the first, on a dose that had been
\* snoozed before it was first taken.
C5_Witness ==
    /\ last.op = "take"
    /\ last.before # None
    /\ last.before.status = "taken"
    /\ last.before.taken_at < last.at
    /\ "snooze_until" \in DOMAIN last.before

\* C6: taken_at is set only on a DoseEvent of status taken, snooze_until only
\* on one of status snoozed.
C6_FieldsMatchStatus ==
    \A j \in 1..Len(doselog) :
        /\ "taken_at" \in DOMAIN doselog[j] => doselog[j].status = "taken"
        /\ "snooze_until" \in DOMAIN doselog[j] => doselog[j].status = "snoozed"

\* C10: the reminder intent snoozes the pending or snoozed entry the query
\* intent would select (the nearest to now), until now plus the extracted
\* minute count.
C10_RemindSnoozesNearest ==
    [][(last'.op = "voice_remind" /\ last'.wrote)
       => LET pending == PendingOrSnoozed(last'.user_id, now)
              q == voice_key(last'.user_id, query_top(pending, now))
          IN /\ last'.q = q
             /\ \E j \in 1..Len(doselog') :
                    /\ matches(doselog'[j], q)
                    /\ doselog'[j].status = "snoozed"
                    /\ doselog'[j].snooze_until
                           = now + last'.minutes * 60]_vars

\* The first value of the ladder, from position i on, whose decimal text
\* occurs in text, and 15 when none does.
RECURSIVE FirstLadderHit(_, _)
FirstLadderHit(text, i) ==
    IF i > Len(Ladder) THEN 15
    ELSE IF Contains(text, format_int(Ladder[i])) THEN Ladder[i]
    ELSE FirstLadderHit(text, i + 1)

\* C11: a reminder command given while no dose of today is pending or
\* snoozed is answered with the confirmation that names the extracted
\* minute count, and the step leaves both stores as they were.
C11_RemindNothingDue ==
    [][(/\ last'.op = "voice_remind"
        /\ last' # last
        /\ PendingOrSnoozed(last'.user_id, now) = <<>>)
       => /\ doselog' = doselog
          /\ medication' = medication
          /\ last'.response
                 = R_remind_nothing(FirstLadderHit(last'.text, 1))]_vars

\* "Remind me in 30 minutes" when both doses of today are taken: the
\* confirmation names 30 minutes and nothing is written.
C11_Witness ==
    /\ last.op = "voice_remind"
    /\ ~last.wrote
    /\ last.response = R_remind_nothing(30)
    /\ Len(doselog) = 2
    /\ \A j \in 1..Len(doselog) : doselog[j].status = "taken"

C16_TakenMeansAllTaken ==
    last.op = "compliance" =>
        \A day \in Window(last.at) :
            "taken" \in StatusesFor(last.calendar, day)
                => \A j \in EventsOn(last.user_id, day) :
                       doselog[j].status = "taken"

\* C20: every stored DoseEvent has status taken or snoozed, and no calendar
\* classifies a date as missed.
C20_NeverMissed ==
    /\ \A j \in 1..Len(doselog) : doselog[j].status \in {"taken", "snoozed"}
    /\ last.op = "compliance"
           => \A i \in 1..Len(last.calendar) :
                  last.calendar[i].status # "missed"

\* A calendar of u1 read after one dose of the day was taken and the other
\* snoozed, the snooze having run out.
C20_Witness ==
    /\ last.op = "compliance"
    /\ last.user_id = "u1"
    /\ \E i, j \in EventsOn("u1", last.at \div 86400) :
           /\ doselog[i].status = "taken"
           /\ doselog[j].status = "snoozed"
           /\ doselog[j].scheduled_at < last.at
    /\ StatusesFor(last.calendar, last.at \div 86400) # {"missed"}

(***************************************************************************)
(* SpecVoice: reminder commands of several wordings, and takes, at one     *)
(* reading of the clock.                                                   *)
(***************************************************************************)
RemindCommands ==
    {VoiceCommandIn(text, "u1") :
        text \in {Txt_remind30, Txt_remind15, Txt_remind45, Txt_remind10,
                  Txt_remind_few, Txt_remind60_20}}

NextVoice ==
    \/ \E cmd \in RemindCommands : voice_command(cmd)
    \/ \E payload \in TakePayloads : mark_taken(payload)

SpecVoice == Init /\ [][NextVoice]_vars

\* C18: the reminder intent answers with, and snoozes until now plus, the
\* first value of the ladder 5, 10, 15, 20, 30, 45, 60 whose decimal text
\* occurs in the lowercased command, 15 when none occurs.
C18_LadderMinutes ==
    [][(last'.op = "voice_remind" /\ last' # last)
       => LET m == FirstLadderHit(last'.text, 1)
          IN IF last'.wrote
             THEN /\ last'.response = R_remind(m)
                  /\ \E j \in 1..Len(doselog') :
                         /\ matches(doselog'[j], last'.q)
                         /\ doselog'[j].status = "snoozed"
                         /\ doselog'[j].snooze_until = now + m * 60
             ELSE /\ last'.response = R_remind_nothing(m)
                  /\ doselog' = doselog]_vars

\* "Remind me in 15 minutes": "5" occurs in the text and comes first on the
\* ladder, so the dose is snoozed for 5 minutes and the answer says 5.
C18_Witness ==
    /\ last.op = "voice_remind"
    /\ last.text = strip(lower(Txt_remind15))
    /\ last.wrote
    /\ last.response = R_remind(5)
    /\ \E j \in Events(last.q) : doselog[j].snooze_until = last.at + 5 * 60

(***************************************************************************)
(* SpecKeys: take and snooze on keys of two users, one of which is no dose *)
(* of any schedule (a medication id that is not stored, at 03:17), all at  *)
(* one reading of the clock.                                               *)
(***************************************************************************)
KeyPayloads ==
    {TakeActionIn("u1", str(1), At(0, 9, 0, 0)),
     TakeActionIn("u2", str(1), At(0, 9, 0, 0)),
     TakeActionIn("u1", str(9), At(0, 3, 17, 0))}

NextKeys ==
    \/ \E payload \in KeyPayloads : mark_taken(payload)
    \/ \E payload \in KeyPayloads : snooze(payload, 15)

SpecKeys == Init /\ [][NextKeys]_vars

\* C17: a take or snooze leaves the medications and every DoseEvent of
\* another key (in place) as they were, and afterwards the store holds one
\* DoseEvent of the supplied key, with the status of the call, added when
\* there was none; so for every key, whether or not it is a dose of a
\* schedule.
C17_PureUpsert ==
    [][(last'.op \in {"take", "snooze"} /\ last' # last)
       => LET q == last'.q
              mine(coll) == {j \in 1..Len(coll) : matches(coll[j], q)}
          IN /\ medication' = medication
             /\ Len(doselog') = Len(doselog)
                                    + (IF mine(doselog) = {} THEN 1 ELSE 0)
             /\ \A i \in 1..Len(doselog) :
                    i \notin mine(doselog) => doselog'[i] = doselog[i]
             /\ Cardinality(mine(doselog')) = 1
             /\ \A j \in mine(doselog') :
                    doselog'[j].status
                        = (IF last'.op = "take" THEN "taken" ELSE "snoozed")]_vars

\* A take on the key that is no dose of any schedule, stored next to the
\* DoseEvents of the two other keys, one of them of another user.
C17_Witness ==
    /\ last.op = "take"
    /\ last.q = key_of(TakeActionIn("u1", str(9), At(0, 3, 17, 0)))
    /\ last.reported = {}
    /\ last.before = None
    /\ Len(doselog) = 3
    /\ Events(last.q) # {}

(***************************************************************************)
(* SpecConc: requests served concurrently.  A handler that writes is two   *)
(* steps: it reads the clock (the reminder intent also today's doses) and  *)
(* builds its query and update, and later its update_one is applied by the *)
(* store, atomically; other requests run in between.                       *)
(***************************************************************************)
\* mark_taken up to its update_one
mark_taken_begin(payload) ==
    /\ inflight' = inflight \cup
           {[op |-> "take", q |-> key_of(payload), fields |-> taken_fields(now)]}
    /\ UNCHANGED <<medication, doselog, now, ticks, last>>

\* snooze up to its update_one
snooze_begin(payload, minutes) ==
    /\ inflight' = inflight \cup
           {[op |-> "snooze", q |-> key_of(payload),
             fields |-> snoozed_fields(now + timedelta_minutes(minutes), now)]}
    /\ UNCHANGED <<medication, doselog, now, ticks, last>>

\* The reminder intent up to its update_one (it answers at once when
\* nothing is pending or the aggregator raises).
voice_remind_begin(cmd) ==
    LET text_lower == strip(lower(cmd.text))
        minutes == extract_minutes(text_lower)
        doses == get_todays_doses(medication, doselog, cmd.user_id, now)
        pending == pending_of(doses.due)
        top == remind_top(pending, now)
    IN /\ is_remind(text_lower) /\ ~is_query(text_lower)
       /\ IF doses.raised \/ pending = <<>>
          THEN /\ last' = [op |-> "voice_remind", user_id |-> cmd.user_id,
                           at |-> now, text |-> text_lower,
                           minutes |-> minutes, wrote |-> FALSE,
                           response |-> IF doses.raised THEN R_error
                                        ELSE R_remind_nothing(minutes)]
               /\ UNCHANGED <<medication, doselog, now, ticks, inflight>>
          ELSE /\ inflight' = inflight \cup
                      {[op |-> "voice_remind", q |-> voice_key(cmd.user_id, top),
                        fields |-> snoozed_fields(
                            now + timedelta_minutes(minutes), now)]}
               /\ UNCHANGED <<medication, doselog, now, ticks, last>>

\* The store applies the request's update_one as an insert, whatever it
\* holds.
upsert_as_insert(r) ==
    /\ r \in inflight
    /\ doselog' = upsert_insert(doselog, r.q, r.fields)
    /\ inflight' = inflight \ {r}
    /\ last' = [op |-> r.op, q |-> r.q, at |-> now, fields |-> r.fields,
                before |-> find_one(doselog, r.q)]
    /\ UNCHANGED <<medication, now, ticks>>

\* The store applies the request's update_one unless the DoseEvent is taken.
upsert_unless_taken(r) ==
    /\ r \in inflight
    /\ doselog' = IF find_one(doselog, r.q) # None
                     /\ find_one(doselog, r.q).status = "taken"
                  THEN doselog
                  ELSE update_one(doselog, r.q, r.fields)
    /\ inflight' = inflight \ {r}
    /\ last' = [op |-> r.op, q |-> r.q, at |-> now, fields |-> r.fields,
                before |-> find_one(doselog, r.q)]
    /\ UNCHANGED <<medication, now, ticks>>

\* The update_one of request r (of mark_taken, snooze or the reminder
\* intent) is applied and the handler returns.
upsert(r) ==
    /\ r \in inflight
    /\ doselog' = update_one(doselog, r.q, r.fields)
    /\ inflight' = inflight \ {r}
    /\ last' = [op |-> r.op, q |-> r.q, at |-> now, fields |-> r.fields,
                before |-> find_one(doselog, r.q)]
    /\ UNCHANGED <<medication, now, ticks>>

ConcTakes == {TakeActionIn("u1", str(1), At(0, 9, 0, 0))}

NextConc ==
    \/ ticks < MaxTicks /\ Tick
    \/ \E payload \in ConcTakes :
           Cardinality(inflight) < MaxInflight /\ mark_taken_begin(payload)
    \/ \E payload \in ConcTakes :
           Cardinality(inflight) < MaxInflight /\ snooze_begin(payload, 15)
    \/ Cardinality(inflight) < MaxInflight
           /\ voice_remind_begin(VoiceCommandIn(Txt_remind30, "u1"))
    \/ \E r \in inflight : upsert(r)

SpecConc == Init /\ [][NextConc]_vars

\* C7: the store never holds two DoseEvents with one key, and a write never
\* changes the key fields of a stored DoseEvent (nor removes one).
C7_KeyUnique ==
    [][/\ \A i, j \in 1..Len(doselog') :
              (/\ doselog'[i].user_id = doselog'[j].user_id
               /\ doselog'[i].medication_id = doselog'[j].medication_id
               /\ doselog'[i].scheduled_at = doselog'[j].scheduled_at)
                  => i = j
       /\ Len(doselog') >= Len(doselog)
       /\ \A i \in 1..Len(doselog) :
              /\ doselog'[i].user_id = doselog[i].user_id
              /\ doselog'[i].medication_id = doselog[i].medication_id
              /\ doselog'[i].scheduled_at = doselog[i].scheduled_at]_vars

\* Two keys stored, one of them written by mark_taken, by snooze and by the
\* reminder intent, the last write being one of two requests in flight
\* together.
C7_Witness ==
    /\ Len(doselog) = 2
    /\ inflight # {}
    /\ last.op = "voice_remind"
    /\ last.before # None
    /\ "taken_at" \in DOMAIN last.before
    /\ "snooze_until" \in DOMAIN last.before
    /\ last.before.snooze_until = last.before.updated_at + 15 * 60

\* C8: the stored status of a key is that of the request whose upsert was
\* applied last, whatever the status before and whichever request began
\* first: taken after a mark_taken, snoozed after a snooze or a reminder.
C8_LastWriteWins ==
    last.op \in {"take", "snooze"} =>
        /\ Events(last.q) # {}
        /\ \A j \in Events(last.q) :
               /\ doselog[j].status
                      = (IF last.op = "take" THEN "taken" ELSE "snoozed")
               /\ doselog[j].updated_at = last.fields.updated_at

\* C19: when the upsert of a reminder command is applied, the DoseEvent of
\* its key is absent or snoozed (or pending), never taken, also when a
\* mark_taken of that key is served between the command's read of today's
\* doses and its upsert.
C19_RemindNeverOverTaken ==
    (last.op = "voice_remind" /\ "before" \in DOMAIN last)
        => \/ last.before = None
           \/ last.before.status \in {"pending", "snoozed"}

\* A snooze that began before a mark_taken on the same key and was applied
\* after it: the dose is left snoozed.
C8_Witness ==
    /\ last.op = "snooze"
    /\ last.before # None
    /\ last.before.status = "taken"
    /\ last.fields.updated_at < last.before.updated_at
    /\ \A j \in Events(last.q) : doselog[j].status = "snoozed"

====
